---- MODULE Spec2Model ----
(***************************************************************************)
(* The grid-combat simulator of src/src/day15.rs: map parsing              *)
(* (World::from_str), the shortest-path search (World::distances_from),    *)
(* one unit's turn (move_step, attack_step), the round and combat loops    *)
(* and the attack-power search (find_minimum_elf_attack_power).            *)
(*                                                                         *)
(* Conventions.  A Position is the pair <<x, y>> (Position(x, y) in the    *)
(* source).  Vectors are TLA+ sequences, so the unit the source calls      *)
(* units[k] is units[k + 1] here and the tile the source stores at         *)
(* tiles[y * width + x] is tiles[y * width + x + 1].  A map text is a      *)
(* sequence of one-character strings.                                      *)
(***************************************************************************)
EXTENDS Integers, Sequences, FiniteSets, TLC

VARIABLES
  input,          \* the map text a run was started on
  parsed,         \* what World::from_str returned for it ("none": not called yet)
  world,          \* the World being simulated
  pc,             \* where the running function stands
  unit_indexes,   \* round(): the turn order fixed at the start of the round
  slot,           \* round(): the place in unit_indexes of the next unit
  outcome,        \* combat(): the value returned ("none" before it returns)
  attack_power,   \* find_minimum_elf_attack_power(): the power under trial
  found,          \* find_minimum_elf_attack_power(): the pair returned
  last,           \* history: the unit that took the last turn and the World before it
  source,         \* distances_from(): the source position asked for
  distances       \* distances_from(): the map returned ("none" before the call)

vars == <<input, parsed, world, pc, unit_indexes, slot, outcome, attack_power,
          found, last, source, distances>>

(***************************************************************************)
(* Constants of the program.                                               *)
(***************************************************************************)
DEFAULT_HEALTH == 200

DEFAULT_ATTACK == 3

\* DIRECTIONS as (dx, dy) pairs, in the order of the source.
DIRECTIONS == << <<0, 1>>, <<1, 0>>, <<0, -1>>, <<-1, 0>> >>

\* usize arithmetic wraps modulo this number.  The source's usize is 64 bits
\* wide; the model checker's integers are 32 bits wide, so the model keeps a
\* 16-bit usize: every grid of the model is far narrower than that, and a
\* wrapped coordinate is only ever compared with width and height.
UsizeRange == 65536

UsizeMax == UsizeRange - 1

\* Option::None of a Tile (World::tile outside the grid, Tile::from_char of an
\* unknown character).
None == "None"

\* Option::None of a Position.
NoPosition == <<>>

\* The first attack power find_minimum_elf_attack_power tries (for attack_power in 3..).
FIRST_ATTACK_POWER == 3

(***************************************************************************)
(* Position                                                                *)
(***************************************************************************)
x(position) == position[1]

y(position) == position[2]

\* impl Add<(isize, isize)> for Position: "as usize" wraps a negative sum.
add(position, direction) ==
  << (x(position) + direction[1]) % UsizeRange,
     (y(position) + direction[2]) % UsizeRange >>

(***************************************************************************)
(* Tile, Team, Unit                                                        *)
(***************************************************************************)
from_char(c) ==
  CASE c = "." -> "Empty"
    [] c = "#" -> "Wall"
    [] c = "E" -> "Elf"
    [] c = "G" -> "Goblin"
    [] OTHER   -> None

enemy(team) == IF team = "Elf" THEN "Goblin" ELSE "Elf"

team_tile(team) == IF team = "Elf" THEN "Elf" ELSE "Goblin"

Unit_new(team, position) ==
  [team |-> team, position |-> position,
   health |-> DEFAULT_HEALTH, attack |-> DEFAULT_ATTACK]

is_alive(unit) == unit.health > 0

\* A take_damage that takes one health point more than the damage.
take_damage_and_one_more(unit, damage) ==
  [unit EXCEPT !.health = unit.health - damage - 1]

take_damage(unit, damage) == [unit EXCEPT !.health = unit.health - damage]

(***************************************************************************)
(* World: tile lookup and mutation                                         *)
(***************************************************************************)
tile(w, position) ==
  IF x(position) >= w.width \/ y(position) >= w.height
  THEN None
  ELSE w.tiles[y(position) * w.width + x(position) + 1]

\* A set_tile that indexes the tiles column by column.
set_tile_by_column(w, position, t) ==
  IF x(position) >= w.width \/ y(position) >= w.height
  THEN w
  ELSE [w EXCEPT !.tiles[x(position) * w.height + y(position) + 1] = t]

set_tile(w, position, t) ==
  IF x(position) >= w.width \/ y(position) >= w.height
  THEN w
  ELSE [w EXCEPT !.tiles[y(position) * w.width + x(position) + 1] = t]

\* A set_elf_attack_power that sets the attack power of every unit.
set_attack_power_of_every_unit(w, power) ==
  [w EXCEPT !.units =
     [k \in DOMAIN w.units |-> [w.units[k] EXCEPT !.attack = power]]]

set_elf_attack_power(w, power) ==
  [w EXCEPT !.units =
     [k \in DOMAIN w.units |->
        IF w.units[k].team = "Elf"
        THEN [w.units[k] EXCEPT !.attack = power]
        ELSE w.units[k]]]

\* A num_dead that counts the dead units of both teams.
num_dead_of_any_team(w, team) ==
  Cardinality({k \in DOMAIN w.units : ~is_alive(w.units[k])})

num_dead(w, team) ==
  Cardinality({k \in DOMAIN w.units :
                 ~is_alive(w.units[k]) /\ w.units[k].team = team})

RECURSIVE sum_health(_, _)
sum_health(units, k) ==
  IF k > Len(units) THEN 0
  ELSE (IF is_alive(units[k]) THEN units[k].health ELSE 0) + sum_health(units, k + 1)

\* A total_health that sums the health of every unit, the dead included.
total_health_of_all_units(w) ==
  LET RECURSIVE sum_all(_)
      sum_all(k) == IF k > Len(w.units) THEN 0 ELSE w.units[k].health + sum_all(k + 1)
  IN sum_all(1)

total_health(w) == sum_health(w.units, 1)

(***************************************************************************)
(* Parsing: str::trim, str::lines and World::from_str                      *)
(***************************************************************************)
\* The characters a map text of the model is made of: the four tiles, the
\* line separator and "x", a character Tile::from_char does not recognise.
Chars == {".", "#", "E", "G", "\n", "x"}

is_whitespace(c) == c = "\n"

RECURSIVE trim_start(_)
trim_start(s) ==
  IF s # <<>> /\ is_whitespace(Head(s)) THEN trim_start(Tail(s)) ELSE s

RECURSIVE trim_end(_)
trim_end(s) ==
  IF s # <<>> /\ is_whitespace(s[Len(s)])
  THEN trim_end(SubSeq(s, 1, Len(s) - 1))
  ELSE s

trim(s) == trim_end(trim_start(s))

\* s.lines().next(): the first line of the text, which ends before the first
\* "\n" (the unwrap() of it panics when the text is empty and has no line).
first_line(s) ==
  LET breaks == {k \in 1..Len(s) : s[k] = "\n"}
  IN IF breaks = {} THEN s
     ELSE SubSeq(s, 1, (CHOOSE k \in breaks : \A j \in breaks : k <= j) - 1)

\* The body of the loop of from_str for the character c: acc is
\* (tiles, units, x, y).
from_str_step(acc, c) ==
  LET t == from_char(c)
  IN IF t # None
     THEN [tiles |-> Append(acc.tiles, t),
           units |-> IF t \in {"Elf", "Goblin"}
                     THEN Append(acc.units, Unit_new(t, <<acc.x, acc.y>>))
                     ELSE acc.units,
           x |-> acc.x + 1,
           y |-> acc.y]
     ELSE IF c = "\n"
     THEN [acc EXCEPT !.y = acc.y + 1, !.x = 0]
     ELSE acc

\* The loop of from_str over the characters lo..hi of s, in order.  The range
\* is halved, and the first half is evaluated (the test on its y, which always
\* holds) before the second is entered, to keep the evaluation shallow.
RECURSIVE from_str_loop(_, _, _, _)
from_str_loop(s, lo, hi, acc) ==
  IF lo > hi THEN acc
  ELSE IF lo = hi THEN from_str_step(acc, s[lo])
  ELSE LET mid        == (lo + hi) \div 2
           first_half == from_str_loop(s, lo, mid, acc)
       IN IF first_half.y >= 0
          THEN from_str_loop(s, mid + 1, hi, first_half)
          ELSE first_half

NoWorld ==
  [tiles |-> <<>>, width |-> 0, height |-> 0, units |-> <<>>, rounds_completed |-> 0]

\* World::from_str.  tag is "Ok", "Err" or "Panic" (the unwrap() of the first
\* line of a text that has no line).
from_str(s) ==
  IF s = <<>>
  THEN [tag |-> "Panic", world |-> NoWorld]
  ELSE LET width  == Len(first_line(s))
           acc    == from_str_loop(s, 1, Len(s),
                                   [tiles |-> <<>>, units |-> <<>>, x |-> 0, y |-> 0])
           height == acc.y + 1
       IN IF Len(acc.tiles) # width * height
          THEN [tag |-> "Err", world |-> NoWorld]
          ELSE [tag |-> "Ok",
                world |-> [tiles |-> acc.tiles, width |-> width, height |-> height,
                           units |-> acc.units, rounds_completed |-> 0]]

(***************************************************************************)
(* World::distances_from                                                   *)
(***************************************************************************)
\* The iteration orders of the HashSet "unvisited" the model tries.  The
\* source iterates the set in the order of its hasher, which differs from
\* run to run; min_by returns the first of the minimal elements it meets.
HashOrders == {"yx", "xy", "reverse"}

hash_rank(position, ord) ==
  CASE ord = "yx"      -> y(position) * UsizeRange + x(position)
    [] ord = "xy"      -> x(position) * UsizeRange + y(position)
    [] ord = "reverse" -> 0 - (y(position) * UsizeRange + x(position))

\* The element of the non-empty set S the iteration in order ord meets first.
hash_first(S, ord) ==
  CHOOSE p \in S : \A q \in S : hash_rank(p, ord) <= hash_rank(q, ord)

min(a, b) == IF a <= b THEN a ELSE b

\* An empty_neighbors that takes every tile of the grid but the Walls: the
\* tiles units stand on too.
neighbors_not_wall(w, current) ==
  {p \in {add(current, DIRECTIONS[d]) : d \in 1..4} :
     tile(w, p) \in {"Empty", "Elf", "Goblin"}}

\* The neighbours of current the relaxation touches.
empty_neighbors(w, current) ==
  {p \in {add(current, DIRECTIONS[d]) : d \in 1..4} : tile(w, p) = "Empty"}

\* A min_unvisited that takes the unvisited position with the greatest
\* distance instead of the least.
max_unvisited(dist, unvisited, ord) ==
  IF unvisited = {} THEN NoPosition
  ELSE LET labelled == unvisited \cap DOMAIN dist
       IN IF labelled = {} THEN hash_first(unvisited, ord)
          ELSE LET most == CHOOSE p \in labelled :
                             \A q \in labelled : dist[p] >= dist[q]
               IN hash_first({p \in labelled : dist[p] = dist[most]}, ord)

\* The element of unvisited min_by returns: the first, in iteration order,
\* of those with the least distance (a position without a distance counts as
\* infinitely far); NoPosition when unvisited is empty.
min_unvisited(dist, unvisited, ord) ==
  IF unvisited = {} THEN NoPosition
  ELSE LET labelled == unvisited \cap DOMAIN dist
       IN IF labelled = {} THEN hash_first(unvisited, ord)
          ELSE LET least == CHOOSE p \in labelled :
                              \A q \in labelled : dist[p] <= dist[q]
               IN hash_first({p \in labelled : dist[p] = dist[least]}, ord)

\* One pass of the loop of distances_from and, by recursion, the passes after it.
RECURSIVE distances_loop(_, _, _, _, _)
distances_loop(w, dist, unvisited, current, ord) ==
  LET next_distance == dist[current] + 1
      neighbors     == empty_neighbors(w, current)
      relaxed       == [p \in DOMAIN dist \cup neighbors |->
                          IF p \in neighbors
                          THEN (IF p \in DOMAIN dist
                                THEN min(dist[p], next_distance)
                                ELSE next_distance)
                          ELSE dist[p]]
      remaining     == unvisited \ {current}
      next          == min_unvisited(relaxed, remaining, ord)
  IN IF next # NoPosition /\ next \in DOMAIN relaxed
     THEN distances_loop(w, relaxed, remaining, next, ord)
     ELSE relaxed

\* The Empty tiles of the grid: the initial value of "unvisited".
empty_tiles(w) ==
  {p \in (0..(w.width - 1)) \X (0..(w.height - 1)) : tile(w, p) = "Empty"}

distances_from(w, src, ord) ==
  distances_loop(w, [p \in {src} |-> 0], empty_tiles(w), src, ord)

(***************************************************************************)
(* World::move_step                                                        *)
(***************************************************************************)
\* A tuple key (a, y, x) compared as Rust compares tuples.
key_le(k1, k2) ==
  \/ k1[1] < k2[1]
  \/ k1[1] = k2[1] /\ k1[2] < k2[2]
  \/ k1[1] = k2[1] /\ k1[2] = k2[2] /\ k1[3] <= k2[3]

\* An adjacent_to_enemy that looks at the first two of the DIRECTIONS only.
adjacent_to_enemy_below_or_right(w, position, enemy_team) ==
  \E d \in 1..2 : tile(w, add(position, DIRECTIONS[d])) = team_tile(enemy_team)

adjacent_to_enemy(w, position, enemy_team) ==
  \E d \in 1..4 : tile(w, add(position, DIRECTIONS[d])) = team_tile(enemy_team)

\* A nearest_in_range whose key is (distance, x, y): ties between equally
\* near positions go to the leftmost column, not the topmost row.
nearest_in_range_by_column(w, enemy_team, dist) ==
  LET in_range == {p \in DOMAIN dist : adjacent_to_enemy(w, p, enemy_team)}
  IN IF in_range = {} THEN NoPosition
     ELSE CHOOSE p \in in_range :
            \A q \in in_range :
              key_le(<<dist[p], x(p), y(p)>>, <<dist[q], x(q), y(q)>>)

\* The destination move_step picks (lines 284-297) given the distances dist
\* from the unit: the position next to an enemy with the least
\* (distance, y, x); NoPosition when there is none.
nearest_in_range(w, enemy_team, dist) ==
  LET in_range == {p \in DOMAIN dist : adjacent_to_enemy(w, p, enemy_team)}
  IN IF in_range = {} THEN NoPosition
     ELSE CHOOSE p \in in_range :
            \A q \in in_range :
              key_le(<<dist[p], y(p), x(p)>>, <<dist[q], y(q), x(q)>>)

\* A destination whose key is the distance alone: among the positions in
\* range equally near, the one the iteration of the map meets first.
destination_by_distance_alone(w, unit_index, ord) ==
  LET dist     == distances_from(w, w.units[unit_index].position, ord)
      in_range == {p \in DOMAIN dist :
                     adjacent_to_enemy(w, p, enemy(w.units[unit_index].team))}
  IN IF in_range = {} THEN NoPosition
     ELSE hash_first({p \in in_range : \A q \in in_range : dist[p] <= dist[q]}, ord)

destination(w, unit_index, ord) ==
  nearest_in_range(w, enemy(w.units[unit_index].team),
                   distances_from(w, w.units[unit_index].position, ord))

\* A step_toward whose key is (distance, x, y): ties between neighbours
\* equally near the destination go to the leftmost column.
step_toward_by_column(w, position, dfd) ==
  LET cand     == {d \in 1..4 : tile(w, add(position, DIRECTIONS[d])) = "Empty"}
      key(d)   == LET p == add(position, DIRECTIONS[d])
                  IN <<IF p \in DOMAIN dfd THEN dfd[p] ELSE UsizeMax, x(p), y(p)>>
      least    == {d \in cand : \A e \in cand : key_le(key(d), key(e))}
      first    == CHOOSE d \in least : \A e \in least : d <= e
  IN IF cand = {} THEN [ret |-> "Panic", position |-> NoPosition]
     ELSE IF add(position, DIRECTIONS[first]) \in DOMAIN dfd
     THEN [ret |-> "Some", position |-> add(position, DIRECTIONS[first])]
     ELSE [ret |-> "None", position |-> add(position, DIRECTIONS[first])]

\* The position move_step steps to (lines 301-313) given the distances dfd
\* from the destination: the first of the Empty neighbours, in the order of
\* DIRECTIONS, with the least (distance, y, x), a neighbour without a distance
\* counting as usize::MAX away.  ret is "Panic" when no neighbour is Empty (the
\* unwrap() of an empty minimum) and "None" when the position picked has no
\* distance to the destination.
step_toward(w, position, dfd) ==
  LET cand     == {d \in 1..4 : tile(w, add(position, DIRECTIONS[d])) = "Empty"}
      key(d)   == LET p == add(position, DIRECTIONS[d])
                  IN <<IF p \in DOMAIN dfd THEN dfd[p] ELSE UsizeMax, y(p), x(p)>>
      least    == {d \in cand : \A e \in cand : key_le(key(d), key(e))}
      first    == CHOOSE d \in least : \A e \in least : d <= e
  IN IF cand = {} THEN [ret |-> "Panic", position |-> NoPosition]
     ELSE IF add(position, DIRECTIONS[first]) \in DOMAIN dfd
     THEN [ret |-> "Some", position |-> add(position, DIRECTIONS[first])]
     ELSE [ret |-> "None", position |-> add(position, DIRECTIONS[first])]

\* A new_position that ranks the neighbours by their distance from the unit
\* instead of their distance from the destination.
new_position_by_own_distances(w, unit_index, dest, ord) ==
  step_toward(w, w.units[unit_index].position,
              distances_from(w, w.units[unit_index].position, ord))

new_position(w, unit_index, dest, ord) ==
  step_toward(w, w.units[unit_index].position, distances_from(w, dest, ord))

\* Lines 311-320 of move_step: the move to the position np picked.
move_to(w, unit_index, np) ==
  IF np.ret # "Some" THEN [world |-> w, ret |-> np.ret]
  ELSE [world |->
          [set_tile(set_tile(w, w.units[unit_index].position, "Empty"),
                    np.position, team_tile(w.units[unit_index].team))
             EXCEPT !.units[unit_index].position = np.position],
        ret |-> "Some"]

\* A move_toward that, when there is no destination, steps onto the first
\* Empty neighbour in reading order instead of staying.
move_toward_or_wander(w, unit_index, dest, ord) ==
  IF dest = NoPosition
  THEN move_to(w, unit_index,
               step_toward(w, w.units[unit_index].position,
                           [p \in empty_tiles(w) |-> 0]))
  ELSE move_to(w, unit_index, new_position(w, unit_index, dest, ord))

\* Lines 284-320 of move_step, given the destination picked.
move_toward(w, unit_index, dest, ord) ==
  IF dest = NoPosition THEN [world |-> w, ret |-> "None"]
  ELSE move_to(w, unit_index, new_position(w, unit_index, dest, ord))

\* move_step: the World after it and what it returns ("Some", "None", or
\* "Panic" for a failed assertion or unwrap).
move_step(w, unit_index, ord) ==
  IF ~is_alive(w.units[unit_index]) THEN [world |-> w, ret |-> "Panic"]
  ELSE IF adjacent_to_enemy(w, w.units[unit_index].position,
                            enemy(w.units[unit_index].team))
  THEN [world |-> w, ret |-> "None"]
  ELSE move_toward(w, unit_index, destination(w, unit_index, ord), ord)

(***************************************************************************)
(* World::attack_step                                                      *)
(***************************************************************************)
\* An enemy_at that also finds dead units.
enemy_dead_or_alive_at(w, p, enemy_team) ==
  LET hits == {k \in DOMAIN w.units :
                 /\ w.units[k].team = enemy_team
                 /\ w.units[k].position = p}
  IN IF hits = {} THEN 0 ELSE CHOOSE k \in hits : \A j \in hits : k <= j

\* units.iter().position(..): the first living unit of enemy_team at position
\* p; 0 when there is none.
enemy_at(w, p, enemy_team) ==
  LET hits == {k \in DOMAIN w.units :
                 /\ is_alive(w.units[k])
                 /\ w.units[k].team = enemy_team
                 /\ w.units[k].position = p}
  IN IF hits = {} THEN 0 ELSE CHOOSE k \in hits : \A j \in hits : k <= j

\* A target_index whose key is (y, x): the first adjacent enemy in reading
\* order, whatever its health.
target_index_ignoring_health(w, unit_index) ==
  LET position   == w.units[unit_index].position
      enemy_team == enemy(w.units[unit_index].team)
      at(d)      == enemy_at(w, add(position, DIRECTIONS[d]), enemy_team)
      cand       == {d \in 1..4 : at(d) # 0}
      key(d)     == LET e == w.units[at(d)]
                    IN <<0, y(e.position), x(e.position)>>
      least      == {d \in cand : \A e \in cand : key_le(key(d), key(e))}
  IN IF cand = {} THEN 0
     ELSE at(CHOOSE d \in least : \A e \in least : d <= e)

\* The unit attack_step picks (lines 331-340): the first, in the order of
\* DIRECTIONS, of the adjacent enemies with the least (health, y, x); 0 when
\* no enemy is adjacent.
target_index(w, unit_index) ==
  LET position   == w.units[unit_index].position
      enemy_team == enemy(w.units[unit_index].team)
      at(d)      == enemy_at(w, add(position, DIRECTIONS[d]), enemy_team)
      cand       == {d \in 1..4 : at(d) # 0}
      key(d)     == LET e == w.units[at(d)]
                    IN <<e.health, y(e.position), x(e.position)>>
      least      == {d \in cand : \A e \in cand : key_le(key(d), key(e))}
  IN IF cand = {} THEN 0
     ELSE at(CHOOSE d \in least : \A e \in least : d <= e)

\* A damage that leaves the tile of a unit it kills as it is.
damage_leaving_the_tile(w, unit_index, target) ==
  IF target = 0 THEN [world |-> w, ret |-> "None"]
  ELSE [world |-> [w EXCEPT !.units[target] =
                     take_damage(w.units[target], w.units[unit_index].attack)],
        ret   |-> "Some"]

\* Lines 342-350 of attack_step: the damage done to the unit picked.
damage(w, unit_index, target) ==
  IF target = 0 THEN [world |-> w, ret |-> "None"]
  ELSE LET hit == take_damage(w.units[target], w.units[unit_index].attack)
       IN [world |-> IF ~is_alive(hit)
                     THEN set_tile([w EXCEPT !.units[target] = hit], hit.position, "Empty")
                     ELSE [w EXCEPT !.units[target] = hit],
           ret   |-> "Some"]

attack_step(w, unit_index) ==
  IF ~is_alive(w.units[unit_index]) THEN [world |-> w, ret |-> "Panic"]
  ELSE damage(w, unit_index, target_index(w, unit_index))

(***************************************************************************)
(* World::turn and the turn order of World::round                          *)
(***************************************************************************)
\* An any_enemies_alive that counts the dead enemies too.
any_enemies_on_roster(w, unit_index) ==
  \E k \in DOMAIN w.units :
    w.units[k].team = enemy(w.units[unit_index].team)

any_enemies_alive(w, unit_index) ==
  \E k \in DOMAIN w.units :
    is_alive(w.units[k]) /\ w.units[k].team = enemy(w.units[unit_index].team)

\* Lines 265-268 of turn: attack_step follows move_step on the World it left.
turn_result(moved, attacked) ==
  IF moved.ret = "Panic" THEN [world |-> moved.world, ret |-> "Panic"]
  ELSE IF attacked.ret = "Panic" THEN [world |-> attacked.world, ret |-> "Panic"]
  ELSE [world |-> attacked.world, ret |-> "Some"]

\* A turn in which a unit that has moved does not attack.
turn_attack_unless_moved(moved, unit_index) ==
  IF moved.ret = "Some" THEN moved
  ELSE turn_result(moved, attack_step(moved.world, unit_index))

turn_attack(moved, unit_index) ==
  turn_result(moved, attack_step(moved.world, unit_index))

\* A turn that also returns None when the unit neither moved nor attacked.
turn_none_when_idle(w, unit_index, ord) ==
  IF ~is_alive(w.units[unit_index]) THEN [world |-> w, ret |-> "Panic"]
  ELSE IF ~any_enemies_alive(w, unit_index) THEN [world |-> w, ret |-> "None"]
  ELSE LET done == turn_attack(move_step(w, unit_index, ord), unit_index)
       IN IF done.world = w THEN [world |-> w, ret |-> "None"] ELSE done

turn(w, unit_index, ord) ==
  IF ~is_alive(w.units[unit_index]) THEN [world |-> w, ret |-> "Panic"]
  ELSE IF ~any_enemies_alive(w, unit_index) THEN [world |-> w, ret |-> "None"]
  ELSE turn_attack(move_step(w, unit_index, ord), unit_index)

\* The stable sort of the unit indexes by (y, x) of the unit's position:
\* units with equal keys keep the order of their indexes.
RECURSIVE sorted_from(_, _)
sorted_from(units, rest) ==
  IF rest = {} THEN <<>>
  ELSE LET before(j, k) ==
             \/ y(units[j].position) < y(units[k].position)
             \/ /\ y(units[j].position) = y(units[k].position)
                /\ x(units[j].position) < x(units[k].position)
             \/ /\ units[j].position = units[k].position
                /\ j <= k
           k0 == CHOOSE k \in rest : \A j \in rest : before(k, j)
       IN <<k0>> \o sorted_from(units, rest \ {k0})

\* A turn order sorted by (x, y): column by column, not row by row.
turn_order_by_column(w) ==
  sorted_from([k \in DOMAIN w.units |->
                 [w.units[k] EXCEPT !.position = <<y(w.units[k].position),
                                                   x(w.units[k].position)>>]],
              DOMAIN w.units)

\* A turn order that is the order of the roster, not the reading order of
\* the positions.
turn_order_of_roster(w) == [k \in DOMAIN w.units |-> k]

turn_order(w) == sorted_from(w.units, DOMAIN w.units)

(***************************************************************************)
(* The map texts of the tests, as the test functions write them (the       *)
(* literal starts and ends with a line break, which the caller trims).     *)
(***************************************************************************)
\* tests::test_round, tests::test_find_attack_power1
WorkedExample ==
  <<"\n">> \o
  <<"#","#","#","#","#","#","#","\n">> \o
  <<"#",".","G",".",".",".","#","\n">> \o
  <<"#",".",".",".","E","G","#","\n">> \o
  <<"#",".","#",".","#","G","#","\n">> \o
  <<"#",".",".","G","#","E","#","\n">> \o
  <<"#",".",".",".",".",".","#","\n">> \o
  <<"#","#","#","#","#","#","#","\n">>

\* tests::test_combat1
Combat1Map ==
  <<"\n">> \o
  <<"#","#","#","#","#","#","#","\n">> \o
  <<"#","G",".",".","#","E","#","\n">> \o
  <<"#","E","#","E",".","E","#","\n">> \o
  <<"#","G",".","#","#",".","#","\n">> \o
  <<"#",".",".",".","#","E","#","\n">> \o
  <<"#",".",".",".","E",".","#","\n">> \o
  <<"#","#","#","#","#","#","#","\n">>

\* tests::test_move_step, tests::test_distances_from
MoveStepMap ==
  <<"\n">> \o
  <<"#","#","#","#","#","#","#","\n">> \o
  <<"#",".","E",".",".",".","#","\n">> \o
  <<"#",".",".",".",".",".","#","\n">> \o
  <<"#",".",".",".","G",".","#","\n">> \o
  <<"#","#","#","#","#","#","#","\n">>

\* tests::test_distances_from_with_unreachable_tiles
UnreachableMap ==
  <<"\n">> \o
  <<"#","#","#","#","#","#","#","\n">> \o
  <<"#","E",".",".","G",".","#","\n">> \o
  <<"#",".",".",".","#",".","#","\n">> \o
  <<"#",".","G",".","#","G","#","\n">> \o
  <<"#","#","#","#","#","#","#","\n">>

\* tests::test_attack_step
AttackStepMap ==
  <<"\n">> \o
  <<"#","#","#","#","#","#","#","\n">> \o
  <<"#","G",".",".",".",".","#","\n">> \o
  <<"#",".",".","G",".",".","#","\n">> \o
  <<"#",".",".","E","G","E","#","\n">> \o
  <<"#",".",".","G",".",".","#","\n">> \o
  <<"#",".",".",".","G",".","#","\n">> \o
  <<"#","#","#","#","#","#","#","\n">>

\* tests::test_turn_do_nothing
DoNothingMap ==
  <<"\n">> \o
  <<"#","#","#","#","#","#","#","\n">> \o
  <<"#",".","E",".",".","E","#","\n">> \o
  <<"#",".",".",".","#",".","#","\n">> \o
  <<"#",".",".",".","#","G","#","\n">> \o
  <<"#","#","#","#","#","#","#","\n">>

(***************************************************************************)
(* Bounds of the model.                                                    *)
(***************************************************************************)
\* SpecParse parses every text of at most MaxLen characters.
MaxLen == 6

\* Spec runs combat on the maps of the tests and on every text of at most
\* MaxTiny characters that parses.
MaxTiny == 3

\* A combat that no turn ends is followed for MaxRounds rounds.
MaxRounds == 80

\* The attack-power search is followed up to this attack power.
MaxAttackPower == 20

\* SpecDist searches every grid of Empty and Wall tiles with at most
\* DistCells cells.
DistCells == 9

\* The texts of at most n characters.
RECURSIVE Texts(_)
Texts(n) ==
  IF n = 0 THEN {<<>>}
  ELSE Texts(n - 1) \cup {Append(s, c) : s \in Texts(n - 1), c \in Chars}

NotParsed == [tag |-> "none", world |-> NoWorld]

NoTurn == [unit |-> 0, before |-> NoWorld]

\* The maps Spec runs combat on.
CombatMaps ==
  {WorkedExample, Combat1Map, MoveStepMap, UnreachableMap, AttackStepMap, DoNothingMap}
    \cup {s \in Texts(MaxTiny) : from_str(trim(s)).tag = "Ok"}

\* The maps SpecSearch searches an attack power for.
SearchMaps == {WorkedExample, <<"E", "G">>, <<"G", "E">>, <<"G", "E", "G">>}

(***************************************************************************)
(* World::combat, World::round: the loops, one action per step             *)
(***************************************************************************)
\* The value combat() returns (line 212).
combat_return(w) == w.rounds_completed * total_health(w)

\* round(), lines 227-238: the turn order is fixed.
RoundStart ==
  /\ pc = "round"
  /\ world.rounds_completed < MaxRounds
  /\ unit_indexes' = turn_order(world)
  /\ slot' = 1
  /\ pc' = "turn"
  /\ UNCHANGED <<input, parsed, world, outcome, attack_power, found, last,
                 source, distances>>

\* A TakeTurn that does not pass over the dead: round() without the check
\* of line 241.
TakeTurn_of_the_dead_too ==
  /\ pc = "turn"
  /\ slot <= Len(unit_indexes)
  /\ \E ord \in HashOrders :
       \E r \in {turn(world, unit_indexes[slot], ord)} :
          /\ r.ret # "None"
          /\ world' = r.world
          /\ pc' = IF r.ret = "Panic" THEN "panic" ELSE "turn"
  /\ last' = [unit |-> unit_indexes[slot], before |-> world]
  /\ slot' = slot + 1
  /\ UNCHANGED <<input, parsed, unit_indexes, outcome, attack_power, found,
                 source, distances>>

\* round(), lines 240-248: the unit of the next slot is alive and turn()
\* returns Some (or panics).
TakeTurn ==
  /\ pc = "turn"
  /\ slot <= Len(unit_indexes)
  /\ is_alive(world.units[unit_indexes[slot]])
  /\ \E ord \in HashOrders :
       \E r \in {turn(world, unit_indexes[slot], ord)} :
          /\ r.ret # "None"
          /\ world' = r.world
          /\ pc' = IF r.ret = "Panic" THEN "panic" ELSE "turn"
  /\ last' = [unit |-> unit_indexes[slot], before |-> world]
  /\ slot' = slot + 1
  /\ UNCHANGED <<input, parsed, unit_indexes, outcome, attack_power, found,
                 source, distances>>

\* A combat() that counts the round cut short as completed.
CombatEnd_counting_the_round ==
  /\ pc = "turn"
  /\ slot <= Len(unit_indexes)
  /\ is_alive(world.units[unit_indexes[slot]])
  /\ \E ord \in HashOrders : turn(world, unit_indexes[slot], ord).ret = "None"
  /\ world' = [world EXCEPT !.rounds_completed = world.rounds_completed + 1]
  /\ outcome' = <<combat_return(world')>>
  /\ pc' = "done"
  /\ UNCHANGED <<input, parsed, unit_indexes, slot, attack_power, found,
                 last, source, distances>>

\* round(), line 242, and combat(), lines 207-213: turn() returns None, so
\* does round(), and combat() returns.
CombatEnd ==
  /\ pc = "turn"
  /\ slot <= Len(unit_indexes)
  /\ is_alive(world.units[unit_indexes[slot]])
  /\ \E ord \in HashOrders : turn(world, unit_indexes[slot], ord).ret = "None"
  /\ outcome' = <<combat_return(world)>>
  /\ pc' = "done"
  /\ UNCHANGED <<input, parsed, world, unit_indexes, slot, attack_power, found,
                 last, source, distances>>

\* round(), line 241: the unit of the next slot is dead and is passed over.
SkipDead ==
  /\ pc = "turn"
  /\ slot <= Len(unit_indexes)
  /\ ~is_alive(world.units[unit_indexes[slot]])
  /\ slot' = slot + 1
  /\ UNCHANGED <<input, parsed, world, pc, unit_indexes, outcome, attack_power,
                 found, last, source, distances>>

\* A RoundEnd that does not count the round.
RoundEnd_without_counting ==
  /\ pc = "turn"
  /\ slot > Len(unit_indexes)
  /\ pc' = "round"
  /\ UNCHANGED <<input, parsed, world, unit_indexes, slot, outcome, attack_power,
                 found, last, source, distances>>

\* A RoundEnd that does not count a round at whose end a faction has no
\* living unit.
RoundEnd_not_counting_the_last_round ==
  /\ pc = "turn"
  /\ slot > Len(unit_indexes)
  /\ world' = IF \E k \in DOMAIN world.units :
                   is_alive(world.units[k]) /\ ~any_enemies_alive(world, k)
              THEN world
              ELSE [world EXCEPT !.rounds_completed = world.rounds_completed + 1]
  /\ pc' = "round"
  /\ UNCHANGED <<input, parsed, unit_indexes, slot, outcome, attack_power, found,
                 last, source, distances>>

\* round(), line 251, and combat(), line 215: every slot was processed,
\* round() returns Some and the round is counted.
RoundEnd ==
  /\ pc = "turn"
  /\ slot > Len(unit_indexes)
  /\ world' = [world EXCEPT !.rounds_completed = world.rounds_completed + 1]
  /\ pc' = "round"
  /\ UNCHANGED <<input, parsed, unit_indexes, slot, outcome, attack_power, found,
                 last, source, distances>>

CombatNext == RoundStart \/ TakeTurn \/ CombatEnd \/ SkipDead \/ RoundEnd

\* combat() called on the World parsed from a map text, as solve() and the
\* tests do: map.trim().parse().unwrap().
Init ==
  /\ input \in CombatMaps
  /\ parsed = from_str(trim(input))
  /\ parsed.tag = "Ok"
  /\ world = parsed.world
  /\ pc = "round"
  /\ unit_indexes = <<>>
  /\ slot = 0
  /\ outcome = <<>>
  /\ attack_power = DEFAULT_ATTACK
  /\ found = <<>>
  /\ last = NoTurn
  /\ source = NoPosition
  /\ distances = <<>>

Next == CombatNext

Spec == Init /\ [][Next]_vars

(***************************************************************************)
(* find_minimum_elf_attack_power: one trial per attack power               *)
(***************************************************************************)
\* Lines 488-489: a fresh World is parsed from the map and the Elves get the
\* attack power under trial; line 491 then calls combat().
StartTrial ==
  /\ pc = "trial"
  /\ attack_power <= MaxAttackPower
  /\ parsed' = from_str(trim(input))
  /\ world' = set_elf_attack_power(parsed'.world, attack_power)
  /\ pc' = IF parsed'.tag = "Ok" THEN "round" ELSE "panic"
  /\ unit_indexes' = <<>>
  /\ slot' = 0
  /\ outcome' = <<>>
  /\ last' = NoTurn
  /\ UNCHANGED <<input, attack_power, found, source, distances>>

\* Lines 493-495: combat() has returned and no Elf is dead; the search returns.
TrialSucceeds ==
  /\ pc = "done"
  /\ num_dead(world, "Elf") = 0
  /\ found' = <<attack_power, outcome[1]>>
  /\ pc' = "found"
  /\ UNCHANGED <<input, parsed, world, unit_indexes, slot, outcome, attack_power,
                 last, source, distances>>

\* Lines 487, 493: combat() has returned and an Elf is dead; the next attack
\* power is tried.
TrialFails ==
  /\ pc = "done"
  /\ num_dead(world, "Elf") # 0
  /\ attack_power' = attack_power + 1
  /\ pc' = "trial"
  /\ UNCHANGED <<input, parsed, world, unit_indexes, slot, outcome, found, last,
                 source, distances>>

InitSearch ==
  /\ input \in SearchMaps
  /\ parsed = NotParsed
  /\ world = NoWorld
  /\ pc = "trial"
  /\ unit_indexes = <<>>
  /\ slot = 0
  /\ outcome = <<>>
  /\ attack_power = FIRST_ATTACK_POWER
  /\ found = <<>>
  /\ last = NoTurn
  /\ source = NoPosition
  /\ distances = <<>>

NextSearch == StartTrial \/ CombatNext \/ TrialSucceeds \/ TrialFails

SpecSearch == InitSearch /\ [][NextSearch]_vars

(***************************************************************************)
(* World::from_str applied to every short text                             *)
(***************************************************************************)
Parse ==
  /\ pc = "parse"
  /\ parsed' = from_str(input)
  /\ world' = parsed'.world
  /\ pc' = "parsed"
  /\ UNCHANGED <<input, unit_indexes, slot, outcome, attack_power, found, last,
                 source, distances>>

InitParse ==
  /\ input \in Texts(MaxLen)
  /\ parsed = NotParsed
  /\ world = NoWorld
  /\ pc = "parse"
  /\ unit_indexes = <<>>
  /\ slot = 0
  /\ outcome = <<>>
  /\ attack_power = DEFAULT_ATTACK
  /\ found = <<>>
  /\ last = NoTurn
  /\ source = NoPosition
  /\ distances = <<>>

NextParse == Parse

SpecParse == InitParse /\ [][NextParse]_vars

(***************************************************************************)
(* World::distances_from applied to every small grid and every source      *)
(***************************************************************************)
\* The text of the grid of width gw and height gh whose cells, row by row,
\* are cells[1], cells[2], ...: the rows separated by "\n".
GridText(gw, gh, cells) ==
  [i \in 1..(gw * gh + gh - 1) |->
     IF (i - 1) % (gw + 1) = gw THEN "\n"
     ELSE cells[((i - 1) \div (gw + 1)) * gw + ((i - 1) % (gw + 1)) + 1]]

\* The grids of Empty and Wall tiles with at most DistCells cells, and the
\* maps of the two tests of distances_from.
DistMaps ==
  {trim(MoveStepMap), trim(UnreachableMap)} \cup
  UNION {{GridText(d[1], d[2], cells) : cells \in [1..(d[1] * d[2]) -> {".", "#"}]} :
           d \in {e \in (1..DistCells) \X (1..DistCells) : e[1] * e[2] <= DistCells}}

Distances ==
  /\ pc = "dist"
  /\ \E ord \in HashOrders : distances' = distances_from(world, source, ord)
  /\ pc' = "dist_done"
  /\ UNCHANGED <<input, parsed, world, unit_indexes, slot, outcome, attack_power,
                 found, last, source>>

InitDist ==
  /\ input \in DistMaps
  /\ parsed = from_str(input)
  /\ parsed.tag = "Ok"
  /\ world = parsed.world
  /\ source \in (0..(world.width - 1)) \X (0..(world.height - 1))
  /\ pc = "dist"
  /\ unit_indexes = <<>>
  /\ slot = 0
  /\ outcome = <<>>
  /\ attack_power = DEFAULT_ATTACK
  /\ found = <<>>
  /\ last = NoTurn
  /\ distances = <<>>

NextDist == Distances

SpecDist == InitDist /\ [][NextDist]_vars

(***************************************************************************)
(* Definitions the properties are stated with.  They are written from what *)
(* the properties say, not from the code above.                            *)
(***************************************************************************)
Positions(w) == (0..(w.width - 1)) \X (0..(w.height - 1))

\* The tile of an in-grid position, read row by row.
TileAt(w, p) == w.tiles[p[2] * w.width + p[1] + 1]

Abs(n) == IF n < 0 THEN 0 - n ELSE n

\* p and q are orthogonal neighbours.
Adjacent(p, q) == Abs(p[1] - q[1]) + Abs(p[2] - q[2]) = 1

Living(w) == {k \in DOMAIN w.units : w.units[k].health > 0}

LivingOf(w, team) == {k \in Living(w) : w.units[k].team = team}

Other(team) == IF team = "Elf" THEN "Goblin" ELSE "Elf"

RECURSIVE HealthSum(_, _)
HealthSum(units, S) ==
  IF S = {} THEN 0
  ELSE LET k == CHOOSE j \in S : TRUE
       IN units[k].health + HealthSum(units, S \ {k})

\* Textbook breadth-first search from src by 4-neighbour steps onto Empty
\* tiles: seen maps every position found so far to its distance, frontier is
\* the set of positions at distance d.
RECURSIVE BfsFrom(_, _, _, _)
BfsFrom(w, seen, frontier, d) ==
  LET fresh == {p \in Positions(w) \ DOMAIN seen :
                  /\ TileAt(w, p) = "Empty"
                  /\ \E q \in frontier : Adjacent(p, q)}
  IN IF fresh = {} THEN seen
     ELSE BfsFrom(w, [p \in DOMAIN seen \cup fresh |->
                        IF p \in fresh THEN d + 1 ELSE seen[p]],
                  fresh, d + 1)

Bfs(w, src) == BfsFrom(w, [p \in {src} |-> 0], {src}, 0)

\* (a1, a2, a3) precedes or equals (b1, b2, b3) lexicographically.
LexLeq(a, b) ==
  \/ a[1] < b[1]
  \/ a[1] = b[1] /\ a[2] < b[2]
  \/ a[1] = b[1] /\ a[2] = b[2] /\ a[3] <= b[3]

\* The positions reachable from unit k that have an enemy of k on an
\* orthogonal neighbour.
InRange(w, k) ==
  {p \in DOMAIN Bfs(w, w.units[k].position) :
     \E q \in Positions(w) :
       Adjacent(p, q) /\ TileAt(w, q) = Other(w.units[k].team)}

\* Unit k has an enemy on an orthogonal neighbour of its position.
NextToEnemy(w, k) ==
  \E q \in Positions(w) :
    Adjacent(w.units[k].position, q) /\ TileAt(w, q) = Other(w.units[k].team)

\* The position of InRange(w, k) that minimises (distance, y, x).
NearestInRange(w, k) ==
  LET d == Bfs(w, w.units[k].position)
      S == InRange(w, k)
  IN CHOOSE p \in S :
       \A q \in S : LexLeq(<<d[p], p[2], p[1]>>, <<d[q], q[2], q[1]>>)

\* The living enemies of unit k on an orthogonal neighbour of its position.
AdjacentEnemies(w, k) ==
  {j \in LivingOf(w, Other(w.units[k].team)) :
     Adjacent(w.units[j].position, w.units[k].position)}

\* The one of them that minimises (health, y, x); 0 when there is none.
WeakestAdjacentEnemy(w, k) ==
  LET S == AdjacentEnemies(w, k)
      key(j) == <<w.units[j].health, w.units[j].position[2], w.units[j].position[1]>>
  IN IF S = {} THEN 0
     ELSE CHOOSE j \in S : \A i \in S : LexLeq(key(j), key(i))

\* The healths of the living units, in reading order of their positions.
RECURSIVE HealthsInReadingOrder(_, _)
HealthsInReadingOrder(w, S) ==
  IF S = {} THEN <<>>
  ELSE LET k == CHOOSE j \in S :
                  \A i \in S :
                    LexLeq(<<w.units[j].position[2], w.units[j].position[1], j>>,
                           <<w.units[i].position[2], w.units[i].position[1], i>>)
       IN <<w.units[k].health>> \o HealthsInReadingOrder(w, S \ {k})

(***************************************************************************)
(* Properties of combat (specification Spec)                               *)
(***************************************************************************)
\* C1: when combat() has returned, the value returned is rounds_completed
\* times the sum of the health of exactly the units with health > 0.
C1_OutcomeIsRoundsTimesLivingHealth ==
  pc = "done" =>
    outcome = <<world.rounds_completed * HealthSum(world.units, Living(world))>>

\* C1 witness: combat has returned a positive outcome with a dead unit of
\* negative health on the roster.
C1_Witness ==
  /\ pc = "done"
  /\ outcome # <<>> /\ outcome[1] > 0
  /\ \E k \in DOMAIN world.units : world.units[k].health < 0

\* C2: combat on the worked-example map returns 27730, after 47 completed
\* rounds, and the survivors are Goblins of health 200, 131, 59 and 200.
C2_WorkedExampleOutcome ==
  (pc = "done" /\ input = WorkedExample) =>
    /\ outcome = <<27730>>
    /\ world.rounds_completed = 47
    /\ LivingOf(world, "Elf") = {}
    /\ HealthsInReadingOrder(world, Living(world)) = <<200, 131, 59, 200>>

\* C2 witness: combat on the worked-example map has returned.
C2_Witness == pc = "done" /\ input = WorkedExample /\ parsed.world.width = 7

\* C3: rounds_completed grows by one in the step in which round() returns
\* Some (every slot of the turn order was processed), stays as it is in every
\* other step, the one in which a turn() returns None and combat() returns
\* included, and so never decreases.
C3_RoundCounting ==
  [][/\ (pc = "turn" /\ slot > Len(unit_indexes))
          => world'.rounds_completed = world.rounds_completed + 1
     /\ ~(pc = "turn" /\ slot > Len(unit_indexes))
          => world'.rounds_completed = world.rounds_completed
     /\ pc' = "done" => world'.rounds_completed = world.rounds_completed
     /\ world'.rounds_completed >= world.rounds_completed]_vars

\* C3 witness: combat has returned from a round cut short after some of its
\* units had taken their turns, with rounds counted before it.
C3_Witness ==
  /\ pc = "done"
  /\ slot > 1 /\ slot <= Len(unit_indexes)
  /\ world.rounds_completed > 0

\* C5: for a living unit with no enemy next to it and some position in range,
\* the destination move_step picks is the position in range that minimises
\* (distance from the unit, y, x), whatever the iteration order of the hash
\* containers.
C5_DestinationIsNearestInReadingOrder ==
  \A k \in Living(world) :
    (~NextToEnemy(world, k) /\ InRange(world, k) # {}) =>
      \A ord \in HashOrders :
        destination(world, k, ord) = NearestInRange(world, k)

\* C5 witness: the unit that took the last turn had no enemy next to it and
\* two positions in range equally near, and it moved.
C5_Witness ==
  /\ last.unit # 0
  /\ ~NextToEnemy(last.before, last.unit)
  /\ \E p, q \in InRange(last.before, last.unit) :
       /\ p # q
       /\ Bfs(last.before, last.before.units[last.unit].position)[p]
            = Bfs(last.before, last.before.units[last.unit].position)[q]
       /\ p = NearestInRange(last.before, last.unit)
  /\ world.units[last.unit].position # last.before.units[last.unit].position

\* C6: attack_step by a living unit damages the living enemy next to it that
\* minimises (health, y, x), by the attacker's attack power, and no other
\* unit; with no enemy next to it, it damages nobody.
C6_AttackTargetIsWeakestInReadingOrder ==
  \A k \in Living(world) :
    LET t     == WeakestAdjacentEnemy(world, k)
        after == attack_step(world, k).world
    IN \A j \in DOMAIN world.units :
         after.units[j].health =
           IF j = t THEN world.units[j].health - world.units[k].attack
           ELSE world.units[j].health

\* C6 witness: the unit that took the last turn stood next to two living
\* enemies, the first of them in reading order not being the weakest, and the
\* weakest of them lost health in that turn.
C6_Witness ==
  /\ last.unit # 0
  /\ \E i, j \in AdjacentEnemies(last.before, last.unit) :
       /\ j = WeakestAdjacentEnemy(last.before, last.unit)
       /\ last.before.units[i].health > last.before.units[j].health
       /\ LexLeq(<<last.before.units[i].position[2], last.before.units[i].position[1], 0>>,
                 <<last.before.units[j].position[2], last.before.units[j].position[1], 0>>)
       /\ world.units[j].health < last.before.units[j].health

\* C10 (the claim as stated): on a map on which at least one faction has no
\* unit, combat() returns at once: no round is ever counted and the outcome
\* is 0.
C10_ZeroFactionEndsAtOnce ==
  (\E team \in {"Elf", "Goblin"} :
     \A k \in DOMAIN world.units : world.units[k].team # team) =>
    /\ world.rounds_completed = 0
    /\ pc = "done" => outcome = <<0>>

(***************************************************************************)
(* Properties of the attack-power search (specification SpecSearch)        *)
(***************************************************************************)
DeadElves(w) == {k \in DOMAIN w.units : w.units[k].team = "Elf" /\ w.units[k].health <= 0}

\* C4: the search tries the attack powers 3, 4, 5, ... in turn, each on a
\* World parsed afresh from the map in which the Elves, and only they, have
\* the power under trial; it goes on to the next power only after a combat
\* that left an Elf dead, and it returns the power and the outcome of the
\* first combat that left none dead: (15, 4988) on the worked-example map.
C4_SearchReturnsLeastSufficientPower ==
  /\ [](/\ attack_power >= 3
        /\ pc \in {"round", "turn", "done", "found"} =>
             \A k \in DOMAIN world.units :
               world.units[k].attack =
                 IF world.units[k].team = "Elf" THEN attack_power ELSE 3
        /\ pc = "found" =>
             /\ found = <<attack_power, outcome[1]>>
             /\ DeadElves(world) = {}
             /\ outcome[1] = world.rounds_completed
                               * HealthSum(world.units, Living(world))
             /\ input = WorkedExample => found = <<15, 4988>>)
  /\ [][/\ attack_power' # attack_power =>
             /\ attack_power' = attack_power + 1
             /\ pc = "done"
             /\ DeadElves(world) # {}
        /\ pc' = "round" /\ pc = "trial" =>
             /\ world'.rounds_completed = 0
             /\ world'.tiles = from_str(trim(input)).world.tiles
             /\ \A k \in DOMAIN world'.units : world'.units[k].health = 200]_vars

\* C4 witness: the search on the worked-example map has returned, after
\* trials that failed.
C4_Witness ==
  pc = "found" /\ input = WorkedExample /\ attack_power > 3 /\ found # <<>>

(***************************************************************************)
(* Properties of distances_from (specification SpecDist)                   *)
(***************************************************************************)
\* C7: the map distances_from returns is the map of breadth-first-search
\* distances from the source: the same positions, each with its
\* breadth-first distance, so an Empty tile no path of Empty tiles connects
\* to the source is absent.
C7_DistancesAreBfsDistances ==
  pc = "dist_done" => distances = Bfs(world, source)

\* C7 witness: distances_from has returned; some Empty tile is not
\* connected to the source and is absent, and some tile is 4 steps away.
C7_Witness ==
  /\ pc = "dist_done"
  /\ \E p \in Positions(world) : TileAt(world, p) = "Empty" /\ p \notin DOMAIN distances
  /\ \E p \in DOMAIN distances : distances[p] >= 4

(***************************************************************************)
(* Properties of parsing (specification SpecParse)                         *)
(***************************************************************************)
\* The lines of a text: it is split at every "\n", and a "\n" that ends the
\* text starts no further line.
RECURSIVE Rows(_)
Rows(s) ==
  IF s = <<>> THEN <<>>
  ELSE LET breaks == {k \in 1..Len(s) : s[k] = "\n"}
       IN IF breaks = {} THEN <<s>>
          ELSE LET b == CHOOSE k \in breaks : \A j \in breaks : k <= j
               IN <<SubSeq(s, 1, b - 1)>> \o Rows(SubSeq(s, b + 1, Len(s)))

\* C8 (the claim as stated): from_str returns Err for every text one of
\* whose lines differs in length from the first.
C8_UnequalRowsAreRejected ==
  (pc = "parsed" /\ \E r \in DOMAIN Rows(input) : Len(Rows(input)[r]) # Len(Rows(input)[1]))
    => parsed.tag = "Err"

\* C9 (the claim as stated): from_str never returns Ok for a text that holds
\* a character other than ".", "#", "E", "G" and the line separator.
C9_UnknownCharactersAreRejected ==
  (pc = "parsed" /\ \E k \in DOMAIN input : input[k] \notin {".", "#", "E", "G", "\n"})
    => parsed.tag # "Ok"

(***************************************************************************)
(* Combat on the texts from_str accepts although their lines differ in     *)
(* length or they hold a character Tile::from_char does not know           *)
(***************************************************************************)
\* The longest text SpecRagged runs combat on.
MaxRagged == 5

\* Some line of s differs in length from the first, or s holds a character
\* from_char does not know.
Malformed(s) ==
  \/ \E r \in DOMAIN Rows(s) : Len(Rows(s)[r]) # Len(Rows(s)[1])
  \/ \E k \in DOMAIN s : from_char(s[k]) = None /\ s[k] # "\n"

RaggedMaps ==
  {s \in Texts(MaxRagged) : s # <<>> /\ s = trim(s) /\ Malformed(s) /\ from_str(s).tag = "Ok"}

InitRagged ==
  /\ input \in RaggedMaps
  /\ parsed = from_str(trim(input))
  /\ world = parsed.world
  /\ pc = "round"
  /\ unit_indexes = <<>>
  /\ slot = 0
  /\ outcome = <<>>
  /\ attack_power = DEFAULT_ATTACK
  /\ found = <<>>
  /\ last = NoTurn
  /\ source = NoPosition
  /\ distances = <<>>

NextRagged == CombatNext

SpecRagged == InitRagged /\ [][NextRagged]_vars

(***************************************************************************)
(* Properties of the World during combat                                   *)
(***************************************************************************)
\* The living units of a team standing at position p.
LivingAt(w, team, p) == {k \in LivingOf(w, team) : w.units[k].position = p}

\* The tile of p, "NoTile" when p lies outside the grid.
TileOrNoTile(w, p) == IF p \in Positions(w) THEN TileAt(w, p) ELSE "NoTile"

\* C11 (the claim as stated): in every World reached from a parsed map the
\* tile at p is Elf (Goblin) exactly when a living Elf (Goblin) stands at p,
\* and every other tile is Empty or Wall.
C11_OccupancyMirror ==
  \A p \in Positions(world) \cup {world.units[k].position : k \in Living(world)} :
    /\ TileOrNoTile(world, p) = "Elf" <=> LivingAt(world, "Elf", p) # {}
    /\ TileOrNoTile(world, p) = "Goblin" <=> LivingAt(world, "Goblin", p) # {}
    /\ p \in Positions(world) => TileAt(world, p) \in {"Elf", "Goblin", "Empty", "Wall"}

(***************************************************************************)
(* Properties of the Worlds the attack-power search starts from            *)
(* (specification SpecSearch)                                              *)
(***************************************************************************)
\* C12: every trial of the search starts from a World parsed afresh: the
\* parse gives the same World as the parse of the trial before, with no round
\* completed and every unit at health 200 and attack power 3, and the World
\* the combat starts from differs from it in the attack power of the Elves
\* only.
C12_EveryTrialStartsFromAFreshWorld ==
  [][(pc = "trial" /\ pc' = "round") =>
       /\ parsed # NotParsed => parsed' = parsed
       /\ parsed'.world.rounds_completed = 0
       /\ \A k \in DOMAIN parsed'.world.units :
            parsed'.world.units[k].health = 200 /\ parsed'.world.units[k].attack = 3
       /\ world'.rounds_completed = 0
       /\ world'.tiles = parsed'.world.tiles
       /\ world'.width = parsed'.world.width /\ world'.height = parsed'.world.height
       /\ DOMAIN world'.units = DOMAIN parsed'.world.units
       /\ \A k \in DOMAIN world'.units :
            /\ world'.units[k].team = parsed'.world.units[k].team
            /\ world'.units[k].position = parsed'.world.units[k].position
            /\ world'.units[k].health = 200
            /\ world'.units[k].attack =
                 IF world'.units[k].team = "Elf" THEN attack_power ELSE 3]_vars

\* C12 witness: a later trial has just started, on a map with Elves and
\* Goblins, after a combat that left units dead and moved.
C12_Witness ==
  /\ pc = "round" /\ unit_indexes = <<>> /\ outcome = <<>>
  /\ attack_power > 4
  /\ world.rounds_completed = 0
  /\ LivingOf(world, "Elf") # {} /\ LivingOf(world, "Goblin") # {}
  /\ input = WorkedExample

(***************************************************************************)
(* Properties of the phases of a turn (specification Spec)                 *)
(***************************************************************************)
\* The Empty tiles on the orthogonal neighbours of p.
EmptyNeighbours(w, p) ==
  {q \in Positions(w) : Adjacent(p, q) /\ TileAt(w, q) = "Empty"}

\* a is at least as good a step as b given the distances d from the
\* destination: (distance, y, x) of a precedes that of b, a position without
\* a distance being infinitely far.
StepLeq(d, a, b) ==
  IF a \in DOMAIN d /\ b \in DOMAIN d
  THEN LexLeq(<<d[a], a[2], a[1]>>, <<d[b], b[2], b[1]>>)
  ELSE IF a \in DOMAIN d THEN TRUE
  ELSE IF b \in DOMAIN d THEN FALSE
  ELSE LexLeq(<<0, a[2], a[1]>>, <<0, b[2], b[1]>>)

\* The best step of unit k toward dest.
StepTile(w, k, dest) ==
  LET S == EmptyNeighbours(w, w.units[k].position)
      d == Bfs(w, dest)
  IN CHOOSE n \in S : \A m \in S : StepLeq(d, n, m)

\* C13: for a living unit with no enemy next to it and some position in
\* range, move_step moves the unit to the Empty neighbour that minimises
\* (distance from the destination, y, x), a neighbour the destination's
\* distances do not hold counting as infinitely far, whatever the iteration
\* order of the hash containers.
C13_StepTileIsNearestToDestination ==
  \A k \in Living(world) :
    (~NextToEnemy(world, k) /\ InRange(world, k) # {}) =>
      \A st \in {StepTile(world, k, NearestInRange(world, k))} :
        \A ord \in HashOrders :
          \A m \in {move_step(world, k, ord)} :
            m.ret = "Some" /\ m.world.units[k].position = st

\* C13 witness: the unit that took the last turn had no enemy next to it and
\* two Empty neighbours equally near its destination, and it stepped onto
\* the first of them in reading order.
C13_Witness ==
  /\ last.unit # 0
  /\ ~NextToEnemy(last.before, last.unit)
  /\ InRange(last.before, last.unit) # {}
  /\ LET d == Bfs(last.before, NearestInRange(last.before, last.unit))
     IN \E n, m \in EmptyNeighbours(last.before, last.before.units[last.unit].position) :
          /\ n # m
          /\ n \in DOMAIN d /\ m \in DOMAIN d /\ d[n] = d[m]
          /\ n = StepTile(last.before, last.unit, NearestInRange(last.before, last.unit))
          /\ world.units[last.unit].position = n

\* Position p precedes or equals position q in reading order.
ReadingLeq(p, q) == p[2] < q[2] \/ (p[2] = q[2] /\ p[1] <= q[1])

\* The sequence order lists every unit of w once, in reading order of the
\* positions the units have in w.
InReadingOrder(order, w) ==
  /\ Len(order) = Len(w.units)
  /\ {order[i] : i \in DOMAIN order} = DOMAIN w.units
  /\ \A i, j \in DOMAIN order :
       i < j => ReadingLeq(w.units[order[i]].position, w.units[order[j]].position)

\* C14: the step that starts a round fixes the turn order as the reading
\* order of the positions the units hold then; every later step of the round
\* keeps that order and passes to its next slot, and the unit that moves or
\* attacks in a step is the unit of the current slot.
C14_TurnOrderFixedAtRoundStart ==
  [][/\ (pc = "round" /\ pc' = "turn") =>
          InReadingOrder(unit_indexes', world) /\ slot' = 1
     /\ (pc = "turn" /\ pc' # "round") =>
          /\ unit_indexes' = unit_indexes
          /\ \A k \in DOMAIN world.units :
               world'.units[k].position # world.units[k].position =>
                 k = unit_indexes[slot]
          /\ \A k \in DOMAIN world.units :
               world'.units[k].health # world.units[k].health =>
                 /\ world.units[k].team # world.units[unit_indexes[slot]].team
                 /\ Adjacent(world.units[k].position,
                             world'.units[unit_indexes[slot]].position)
     /\ (pc = "turn" /\ pc' \in {"turn", "panic"}) => slot' = slot + 1]_vars

\* C14 witness: late in a round, after a turn by the unit of the slot before,
\* the order fixed at the start of the round is no longer the reading order
\* of the positions, because units have moved.
C14_Witness ==
  /\ pc = "turn"
  /\ slot > 2
  /\ last.unit = unit_indexes[slot - 1]
  /\ world.units[last.unit].position # last.before.units[last.unit].position
  /\ ~InReadingOrder(unit_indexes, world)

\* C15: no step changes the number of units or the team of a unit; a unit
\* whose health is <= 0 is left exactly as it is by every step (it does not
\* move and is not attacked), the step at its slot of the turn order passes
\* it over without touching the World, and the unit acting in a step that
\* changes a position or a health is alive.
C15_DeathIsAbsorbing ==
  [][/\ Len(world'.units) = Len(world.units)
     /\ \A k \in DOMAIN world.units :
          /\ world'.units[k].team = world.units[k].team
          /\ world.units[k].health <= 0 => world'.units[k] = world.units[k]
     /\ (pc = "turn" /\ slot <= Len(unit_indexes)
           /\ world.units[unit_indexes[slot]].health <= 0) =>
          world' = world /\ slot' = slot + 1 /\ pc' = "turn"
     /\ (pc = "turn" /\ world'.units # world.units) =>
          world.units[unit_indexes[slot]].health > 0]_vars

\* C15 witness: the slot of a dead unit has just been passed over, and the
\* unit that took the last turn stands, alive, next to the position of a
\* dead enemy.
C15_Witness ==
  /\ pc = "turn"
  /\ slot > 1
  /\ world.units[unit_indexes[slot - 1]].health <= 0
  /\ last.unit # 0
  /\ world.units[last.unit].health > 0
  /\ \E d \in DOMAIN world.units :
       /\ world.units[d].health <= 0
       /\ world.units[d].team # world.units[last.unit].team
       /\ Adjacent(world.units[d].position, world.units[last.unit].position)

\* C16: turn() for a living unit whose enemies are all dead (or absent)
\* returns None and leaves the World as it is; in the step in which that
\* happens round() and combat() return: the World and the slot stay as they
\* are and no unit of a later slot takes a turn.
C16_TurnWithoutEnemiesReturnsNone ==
  /\ [](\A k \in Living(world) :
          LivingOf(world, Other(world.units[k].team)) = {} =>
            \A ord \in HashOrders :
              turn(world, k, ord) = [world |-> world, ret |-> "None"])
  /\ [][(/\ pc = "turn"
         /\ slot <= Len(unit_indexes)
         /\ world.units[unit_indexes[slot]].health > 0
         /\ LivingOf(world, Other(world.units[unit_indexes[slot]].team)) = {}) =>
          /\ pc' = "done"
          /\ world' = world
          /\ slot' = slot
          /\ last' = last]_vars

\* C16 witness: combat has returned from a round in which the last enemy
\* died, with a living unit in a later slot that took no turn.
C16_Witness ==
  /\ pc = "done"
  /\ world.rounds_completed > 0
  /\ \E d \in DOMAIN world.units : world.units[d].health <= 0
  /\ \E j \in DOMAIN unit_indexes : j > slot /\ world.units[unit_indexes[j]].health > 0

\* C17: for a living unit with a living enemy on an orthogonal neighbour,
\* move_step changes nothing, and the turn is the attack made from where the
\* unit stands: it returns Some, the weakest adjacent enemy loses the unit's
\* attack power and no unit's position changes.
C17_AdjacentUnitDoesNotMove ==
  \A k \in Living(world) :
    AdjacentEnemies(world, k) # {} =>
      \A t \in {WeakestAdjacentEnemy(world, k)} :
        \A ord \in HashOrders :
          \A r \in {turn(world, k, ord)} :
            /\ move_step(world, k, ord).world = world
            /\ r.ret = "Some"
            /\ r.world.units[t].health = world.units[t].health - world.units[k].attack
            /\ \A j \in DOMAIN world.units :
                 r.world.units[j].position = world.units[j].position

\* C17 witness: the unit that took the last turn stood next to a living enemy
\* and next to an Empty tile; it stayed where it was and an enemy lost health.
C17_Witness ==
  /\ last.unit # 0
  /\ AdjacentEnemies(last.before, last.unit) # {}
  /\ EmptyNeighbours(last.before, last.before.units[last.unit].position) # {}
  /\ world.units[last.unit].position = last.before.units[last.unit].position
  /\ \E j \in DOMAIN world.units : world.units[j].health < last.before.units[j].health

\* The Empty tiles unit k can reach that have an enemy of k on an orthogonal
\* neighbour.
ReachableEmptyInRange(w, k) == InRange(w, k) \ {w.units[k].position}

\* C18 (the claim as stated): the turn of a living unit that has living
\* enemies but can reach no Empty tile next to one leaves the World unchanged
\* and returns Some.
C18_NothingReachableNothingChanges ==
  \A k \in Living(world) :
    (/\ LivingOf(world, Other(world.units[k].team)) # {}
     /\ ReachableEmptyInRange(world, k) = {}) =>
      \A ord \in HashOrders :
        turn(world, k, ord) = [world |-> world, ret |-> "Some"]

\* C18 (amended): the turn of a living unit that has living enemies, none of
\* them on an orthogonal neighbour, and can reach no Empty tile next to one
\* leaves the World unchanged and returns Some.
C18_NothingReachableNotAdjacentNothingChanges ==
  \A k \in Living(world) :
    (/\ LivingOf(world, Other(world.units[k].team)) # {}
     /\ AdjacentEnemies(world, k) = {}
     /\ ReachableEmptyInRange(world, k) = {}) =>
      \A ord \in HashOrders :
        turn(world, k, ord) = [world |-> world, ret |-> "Some"]

\* C18 witness: the unit that took the last turn had living enemies, none
\* next to it, and an Empty neighbour to step on, but some Empty tile next
\* to an enemy existed and none was reachable; the World is as it was.
C18_Witness ==
  /\ last.unit # 0
  /\ pc = "turn"
  /\ LivingOf(last.before, Other(last.before.units[last.unit].team)) # {}
  /\ AdjacentEnemies(last.before, last.unit) = {}
  /\ ReachableEmptyInRange(last.before, last.unit) = {}
  /\ EmptyNeighbours(last.before, last.before.units[last.unit].position) # {}
  /\ \E e \in LivingOf(last.before, Other(last.before.units[last.unit].team)) :
       EmptyNeighbours(last.before, last.before.units[e].position) # {}
  /\ world = last.before

\* C19: attack_step by a living unit with a living enemy next to it lowers
\* the health of the weakest such enemy by the unit's attack power and leaves
\* every other field of every unit as it is; the tile of the target becomes
\* Empty exactly when its new health is <= 0, and every other tile, the size
\* of the grid and the count of rounds stay as they are.  Without a living
\* enemy next to the unit, attack_step changes nothing.
C19_AttackChangesTheTargetOnly ==
  \A k \in Living(world) :
    \A t \in {WeakestAdjacentEnemy(world, k)} : \A a \in {attack_step(world, k)} :
       IF t = 0 THEN a.world = world /\ a.ret = "None"
       ELSE LET health == world.units[t].health - world.units[k].attack
            IN /\ a.ret = "Some"
               /\ a.world.units =
                    [j \in DOMAIN world.units |->
                       IF j = t THEN [world.units[t] EXCEPT !.health = health]
                       ELSE world.units[j]]
               /\ a.world.width = world.width
               /\ a.world.height = world.height
               /\ a.world.rounds_completed = world.rounds_completed
               /\ \A p \in Positions(world) :
                    TileAt(a.world, p) =
                      IF p = world.units[t].position /\ health <= 0 THEN "Empty"
                      ELSE TileAt(world, p)

\* C19 witness: in the last turn a unit was killed: its health fell from
\* above 0 to 0 or less and its tile, a unit tile before, is Empty.
C19_Witness ==
  /\ last.unit # 0
  /\ \E j \in DOMAIN world.units :
       /\ last.before.units[j].health > 0
       /\ world.units[j].health <= 0
       /\ TileAt(last.before, world.units[j].position) \in {"Elf", "Goblin"}
       /\ TileAt(world, world.units[j].position) = "Empty"
  /\ \E i \in Living(world) : i # last.unit

\* The position unit k has after the move phase of its turn: the best step
\* toward the nearest position in range when no enemy is next to it and
\* some Empty tile in range is reachable, else the position it has.
PositionAfterMove(w, k) ==
  IF AdjacentEnemies(w, k) = {} /\ ReachableEmptyInRange(w, k) # {}
  THEN StepTile(w, k, NearestInRange(w, k))
  ELSE w.units[k].position

\* C20: in the turn of a living unit with living enemies the attack is made
\* from the position the unit has after the move phase: the unit ends the
\* turn there, the weakest living enemy next to that position loses the
\* unit's attack power, and nobody else, nobody at all when no enemy is next
\* to that position, loses health.
C20_AttackFollowsMove ==
  \A k \in Living(world) :
    LivingOf(world, Other(world.units[k].team)) # {} =>
      \A np \in {PositionAfterMove(world, k)} :
        \A t \in {WeakestAdjacentEnemy([world EXCEPT !.units[k].position = np], k)} :
          \A ord \in HashOrders :
            \A r \in {turn(world, k, ord)} :
              /\ r.ret = "Some"
              /\ r.world.units[k].position = np
              /\ \A j \in DOMAIN world.units :
                   r.world.units[j].health =
                     IF j = t THEN world.units[j].health - world.units[k].attack
                     ELSE world.units[j].health

\* C20 witness: the unit that took the last turn had no enemy next to it,
\* stepped next to one, and that enemy lost health in the same turn.
C20_Witness ==
  /\ last.unit # 0
  /\ AdjacentEnemies(last.before, last.unit) = {}
  /\ world.units[last.unit].position # last.before.units[last.unit].position
  /\ \E j \in AdjacentEnemies(world, last.unit) :
       world.units[j].health < last.before.units[j].health

(***************************************************************************)
(* Properties of the keys of distances_from (specification SpecDist)       *)
(***************************************************************************)
\* The positions a walk from src over Empty tiles of the grid reaches: S
\* grown by the Empty orthogonal neighbours of its members until none is new.
RECURSIVE Flood(_, _)
Flood(w, S) ==
  LET more == {p \in Positions(w) \ S :
                 TileAt(w, p) = "Empty" /\ \E q \in S : Adjacent(p, q)}
  IN IF more = {} THEN S ELSE Flood(w, S \cup more)

\* C21: the keys of the map distances_from returns are the source, at
\* distance 0 whatever its tile, and the Empty tiles of the grid a walk over
\* Empty tiles connects to it: every other key is a position of the grid
\* whose tile is Empty (no Wall, no tile a unit stands on, nothing outside
\* the grid), and has a neighbour one step nearer that is the source or an
\* Empty key, so no path counted passes through an occupied tile.
C21_KeysAreSourceAndConnectedEmptyTiles ==
  pc = "dist_done" =>
    /\ DOMAIN distances = Flood(world, {source})
    /\ distances[source] = 0
    /\ \A p \in DOMAIN distances \ {source} :
         /\ p \in Positions(world)
         /\ TileAt(world, p) = "Empty"
         /\ \A k \in Living(world) : world.units[k].position # p
         /\ \E q \in DOMAIN distances :
              /\ Adjacent(p, q)
              /\ distances[q] = distances[p] - 1
              /\ q = source \/ TileAt(world, q) = "Empty"

\* C21 witness: distances_from has returned for a source a unit stands on,
\* with several keys, and another unit stands next to a key without being
\* one.
C21_Witness ==
  /\ pc = "dist_done"
  /\ \E k \in Living(world) : world.units[k].position = source
  /\ Cardinality(DOMAIN distances) > 3
  /\ \E k \in Living(world) :
       /\ world.units[k].position \notin DOMAIN distances
       /\ \E q \in DOMAIN distances : Adjacent(q, world.units[k].position)

(***************************************************************************)
(* The terrain (specification Spec)                                        *)
(***************************************************************************)
\* Unit k of w stands at p and in v it stands elsewhere or has died, or it
\* stands at p in v and stood elsewhere in w.
LeftEnteredOrDiedAt(w, v, k, p) ==
  \/ /\ w.units[k].position = p
     /\ w.units[k].health > 0
     /\ v.units[k].position # p \/ v.units[k].health <= 0
  \/ /\ v.units[k].position = p
     /\ w.units[k].position # p

\* C22: no step of combat changes the width or the height, the number of
\* tiles or of units, or turns a Wall into something else or something else
\* into a Wall; a tile that changes goes from Empty to the marker of a
\* faction or back, at a position a unit leaves, enters or dies on in that
\* step.
C22_TerrainIsImmutable ==
  [][/\ world'.width = world.width
     /\ world'.height = world.height
     /\ Len(world'.tiles) = Len(world.tiles)
     /\ DOMAIN world'.units = DOMAIN world.units
     /\ \A p \in Positions(world) :
          /\ TileAt(world', p) = "Wall" <=> TileAt(world, p) = "Wall"
          /\ TileAt(world', p) # TileAt(world, p) =>
               /\ "Empty" \in {TileAt(world, p), TileAt(world', p)}
               /\ {TileAt(world, p), TileAt(world', p)} \subseteq {"Empty", "Elf", "Goblin"}
               /\ \E k \in DOMAIN world.units :
                    LeftEnteredOrDiedAt(world, world', k, p)]_vars

\* C22 witness: on a map with Walls on which a unit has died, the last turn
\* moved its unit: tiles changed and every Wall is where it was.
C22_Witness ==
  /\ last.unit # 0
  /\ last.before.units[last.unit].position # world.units[last.unit].position
  /\ \E k \in DOMAIN world.units : world.units[k].health <= 0
  /\ \E p \in Positions(world) : TileAt(world, p) = "Wall"
  /\ \A p \in Positions(world) :
       TileAt(world, p) = "Wall" <=> TileAt(last.before, p) = "Wall"

(***************************************************************************)
(* The return of combat (specification Spec)                               *)
(***************************************************************************)
\* Both factions have a living unit.
BothFactionsAlive(w) == LivingOf(w, "Elf") # {} /\ LivingOf(w, "Goblin") # {}

\* C23: combat has returned only in states where a faction has no living
\* unit; the step in which it returns is the turn of a living unit none of
\* whose enemies lives, it leaves the World as it is, and since the turn
\* before it (or the start of combat) no living unit was in that position;
\* while both factions have a living unit no step makes combat return, and
\* once a faction is eliminated no unit takes a turn any more.
C23_CombatReturnsAtFirstTurnAfterElimination ==
  /\ [](pc = "done" => ~BothFactionsAlive(world))
  /\ [][(pc # "done" /\ pc' = "done") =>
          /\ pc = "turn"
          /\ slot <= Len(unit_indexes)
          /\ world.units[unit_indexes[slot]].health > 0
          /\ LivingOf(world, Other(world.units[unit_indexes[slot]].team)) = {}
          /\ world' = world
          /\ last.unit # 0 => BothFactionsAlive(last.before)]_vars
  /\ [][BothFactionsAlive(world) => pc' # "done"]_vars
  /\ [][(~BothFactionsAlive(world) /\ Living(world) # {}) =>
          /\ world'.units = world.units
          /\ world'.tiles = world.tiles
          /\ last' = last
          /\ (pc = "turn" /\ slot <= Len(unit_indexes)
                /\ world.units[unit_indexes[slot]].health > 0) => pc' = "done"]_vars

\* C23 witness: combat has returned in the middle of a round, at the turn
\* that followed the one in which the last unit of a faction died.
C23_Witness ==
  /\ pc = "done"
  /\ slot > 1
  /\ last.unit # 0
  /\ BothFactionsAlive(last.before)
  /\ ~BothFactionsAlive(world)
  /\ Living(world) # {}

(***************************************************************************)
(* Combat under two successive attack powers                               *)
(***************************************************************************)
\* A map on which no Elf dies at attack power 13 and one dies at 14.
NonMonotoneMap ==
  <<"#","E","#","\n">> \o
  <<"#","G","G","\n">> \o
  <<"G","E","G">>

PowerMaps == {NonMonotoneMap, WorkedExample}

\* Lines 488-489 of find_minimum_elf_attack_power: the World parsed from the
\* map, its Elves given the attack power.
trial_world(map, power) == set_elf_attack_power(from_str(trim(map)).world, power)

\* Lines 487-493 for the next attack power, whatever the number of dead Elves:
\* combat() has returned, the number of dead Elves is recorded and combat is
\* run with one more attack power on a World parsed afresh from the same map.
NextPower ==
  /\ pc = "done"
  /\ found = <<>>
  /\ found' = <<num_dead(world, "Elf")>>
  /\ attack_power' = attack_power + 1
  /\ parsed' = from_str(trim(input))
  /\ world' = trial_world(input, attack_power')
  /\ pc' = "round"
  /\ unit_indexes' = <<>>
  /\ slot' = 0
  /\ outcome' = <<>>
  /\ last' = NoTurn
  /\ UNCHANGED <<input, source, distances>>

InitPowers ==
  /\ input \in PowerMaps
  /\ attack_power \in FIRST_ATTACK_POWER..MaxAttackPower
  /\ parsed = from_str(trim(input))
  /\ parsed.tag = "Ok"
  /\ world = trial_world(input, attack_power)
  /\ pc = "round"
  /\ unit_indexes = <<>>
  /\ slot = 0
  /\ outcome = <<>>
  /\ found = <<>>
  /\ last = NoTurn
  /\ source = NoPosition
  /\ distances = <<>>

NextPowers == CombatNext \/ NextPower

SpecPowers == InitPowers /\ [][NextPowers]_vars

\* The number of hits of the given power that kill a unit of full health.
HitsToKill(power) == (DEFAULT_HEALTH + power - 1) \div power

\* C24 (the claim as stated): after combat with attack power p + 1 no more
\* Elves are dead than after combat with attack power p on the same map.
C24_MoreAttackPowerNoMoreDeadElves ==
  (pc = "done" /\ found # <<>>) => num_dead(world, "Elf") <= found[1]

\* C24 (amended): the number of dead Elves is the same after combat with
\* attack powers p and p + 1 that kill a Goblin of full health in the same
\* number of hits; between powers that do not, it may go up as well as down.
C24_SameHitsToKillSameDeadElves ==
  (/\ pc = "done"
   /\ found # <<>>
   /\ HitsToKill(attack_power) = HitsToKill(attack_power - 1)) =>
    num_dead(world, "Elf") = found[1]

\* C24 witness: combat has returned under attack powers 17 and 18, which
\* both kill a Goblin in 12 hits, with Goblins dead in the second.
C24_Witness ==
  /\ pc = "done"
  /\ found # <<>>
  /\ attack_power = 18
  /\ HitsToKill(attack_power) = HitsToKill(attack_power - 1)
  /\ num_dead(world, "Goblin") > 0

(***************************************************************************)
(* The step of move_step (specification Spec)                              *)
(***************************************************************************)
\* C25: in the turn of a living unit that has living enemies, none of them
\* next to it, and a position in range it can reach, move_step moves the
\* unit: nothing panics, the unit ends the turn on an orthogonal neighbour
\* of its position that was Empty, and that neighbour is one step nearer
\* the destination than the unit was, by shortest paths over Empty tiles.
C25_MoveGoesOneStepNearerTheDestination ==
  [][(/\ pc = "turn"
      /\ slot <= Len(unit_indexes)
      /\ world.units[unit_indexes[slot]].health > 0
      /\ LivingOf(world, Other(world.units[unit_indexes[slot]].team)) # {}
      /\ ~NextToEnemy(world, unit_indexes[slot])
      /\ InRange(world, unit_indexes[slot]) # {}) =>
       \A k \in {unit_indexes[slot]} :
         \A dest \in {NearestInRange(world, k)} :
           \A np \in {world'.units[k].position} :
             /\ pc' = "turn"
             /\ Adjacent(np, world.units[k].position)
             /\ np \in Positions(world)
             /\ TileAt(world, np) = "Empty"
             /\ TileAt(world', np) = world.units[k].team
             /\ np \in DOMAIN Bfs(world, dest)
             /\ Bfs(world, dest)[np] = Bfs(world, world.units[k].position)[dest] - 1]_vars

\* C25 witness: the unit that took the last turn had its destination three
\* steps away or more and an Empty neighbour from which the destination
\* cannot be reached any nearer, and it moved.
C25_Witness ==
  /\ last.unit # 0
  /\ ~NextToEnemy(last.before, last.unit)
  /\ InRange(last.before, last.unit) # {}
  /\ world.units[last.unit].position # last.before.units[last.unit].position
  /\ LET from == last.before.units[last.unit].position
         dest == NearestInRange(last.before, last.unit)
         d    == Bfs(last.before, dest)
     IN /\ Bfs(last.before, from)[dest] >= 3
        /\ \E n \in EmptyNeighbours(last.before, from) :
             n \notin DOMAIN d \/ d[n] >= Bfs(last.before, from)[dest]

(***************************************************************************)
(* Where the living units stand (specification SpecRagged)                 *)
(***************************************************************************)
\* C26 (the claim as stated): in every World reached from a parsed map no
\* two living units have the same position and every living unit stands on
\* a position of the grid whose tile is not a Wall.
C26_LivingUnitsApartAndOnTheGrid ==
  /\ \A j, k \in Living(world) :
       j # k => world.units[j].position # world.units[k].position
  /\ \A k \in Living(world) :
       TileOrNoTile(world, world.units[k].position) \notin {"Wall", "NoTile"}

(***************************************************************************)
(* Determinism (specification Spec)                                        *)
(***************************************************************************)
\* C27: the turn of the unit whose slot is next gives the same World and the
\* same return value under every iteration order of the hash containers, and
\* so do the distances from the unit and its destination; every step of
\* combat is then a function of the state it is taken in: two runs on the
\* same map reach the same tiles, positions, health, rounds_completed and
\* outcome.
C27_HashOrderDoesNotMatter ==
  /\ [](( /\ pc = "turn"
          /\ slot <= Len(unit_indexes)
          /\ world.units[unit_indexes[slot]].health > 0) =>
         \A k \in {unit_indexes[slot]} :
           \A t \in {turn(world, k, "yx")} :
             \A d \in {distances_from(world, world.units[k].position, "yx")} :
               \A ord \in HashOrders \ {"yx"} :
                 /\ turn(world, k, ord) = t
                 /\ distances_from(world, world.units[k].position, ord) = d
                 /\ destination(world, k, ord) = destination(world, k, "yx"))
  /\ [][\A k \in {IF pc = "turn" /\ slot <= Len(unit_indexes)
                   THEN unit_indexes[slot] ELSE 0} :
          /\ (k # 0 /\ world.units[k].health > 0 /\ pc' = "turn") =>
               world' = turn(world, k, "yx").world
          /\ (k # 0 /\ world.units[k].health > 0 /\ pc' = "done") =>
               /\ world' = world
               /\ outcome' = <<world.rounds_completed * HealthSum(world.units, Living(world))>>
          /\ pc = "round" => (unit_indexes' = turn_order(world) /\ world' = world)]_vars

\* C27 witness: the unit that took the last turn moved toward a destination
\* two steps away or more, with several positions at one and the same
\* distance from it for the hash order to choose the next to visit among.
C27_Witness ==
  /\ last.unit # 0
  /\ world.units[last.unit].position # last.before.units[last.unit].position
  /\ LET d == Bfs(last.before, last.before.units[last.unit].position)
     IN /\ d[NearestInRange(last.before, last.unit)] >= 2
        /\ \E p, q \in DOMAIN d : p # q /\ d[p] = d[q] /\ d[p] >= 1
        /\ \E p, q \in InRange(last.before, last.unit) : p # q /\ d[p] = d[q]

(***************************************************************************)
(* Combat that goes on for ever (specification SpecFair)                   *)
(***************************************************************************)
\* The unit of the next slot is alive: turn() is called for it, which is a
\* TakeTurn step or a CombatEnd step according to what it returns.
TurnReady ==
  /\ pc = "turn"
  /\ slot <= Len(unit_indexes)
  /\ is_alive(world.units[unit_indexes[slot]])

\* combat() keeps running: the loops of lines 206-216 and 240-249 take their
\* next step whenever there is one.  The fairness of the two steps that call
\* turn() is weak fairness of TakeTurn \/ CombatEnd written out, TurnReady
\* being the states in which one of them is enabled.
SpecFair ==
  /\ Init
  /\ [][Next]_vars
  /\ WF_vars(RoundStart)
  /\ WF_vars(SkipDead)
  /\ WF_vars(RoundEnd)
  /\ []<>(~TurnReady) \/ []<><<TurnReady>>_vars

\* Both factions have a living unit and no living unit has an enemy next to
\* it or can reach an Empty tile next to one; or there is no unit at all.
Stuck(w) ==
  \/ /\ BothFactionsAlive(w)
     /\ \A k \in Living(w) :
          ~NextToEnemy(w, k) /\ AdjacentEnemies(w, k) = {} /\ ReachableEmptyInRange(w, k) = {}
  \/ w.units = <<>>

\* C28: in a stuck World every step of combat leaves the tiles and the units
\* as they are, no turn returns None and nothing panics, so round() returns
\* Some and combat() does not return; every round is counted:
\* rounds_completed goes up by one at the end of each and reaches every
\* number the model follows it to.
C28_StuckWorldsNeverFinish ==
  /\ [][Stuck(world) =>
          /\ world'.tiles = world.tiles
          /\ world'.units = world.units
          /\ pc' \in {"round", "turn"}
          /\ (pc = "turn" /\ pc' = "round") =>
               world'.rounds_completed = world.rounds_completed + 1]_vars
  /\ Stuck(world) ~> (world.rounds_completed = MaxRounds)

\* C28 witness: three rounds or more were completed in a World in which an
\* Elf and a Goblin live and nobody can act.
C28_Witness ==
  /\ Stuck(world)
  /\ BothFactionsAlive(world)
  /\ world.rounds_completed >= 3
  /\ last.unit # 0
  /\ last.before.units = world.units

(***************************************************************************)
(* The round of the last kill (specification Spec)                         *)
(***************************************************************************)
\* A faction has been eliminated and the other has a living unit.
Over(w) == ~BothFactionsAlive(w) /\ Living(w) # {}

\* A living unit has a slot that is still to come in the round under way.
LivingUnitToCome ==
  \E j \in DOMAIN unit_indexes : j >= slot /\ world.units[unit_indexes[j]].health > 0

\* C29: once a faction is eliminated in a round, if a living unit has a slot
\* after the killer's the round is not counted: rounds_completed stays as it
\* is until combat returns, at that unit's turn; if none has, combat does not
\* return in that round, the round is counted at its end, and the next round
\* starts with a living unit to come, at whose turn combat returns.  So when
\* combat has returned, rounds_completed is what it was at the last turn
\* taken if the unit of that turn has a slot before the one combat returned
\* at, and one more if it has not.
C29_LastRoundCountedUnlessALivingUnitFollows ==
  /\ [][(Over(world) /\ pc = "turn" /\ LivingUnitToCome) =>
          /\ world' = world
          /\ pc' \in {"turn", "done"}
          /\ (world.units[unit_indexes[slot]].health > 0) => pc' = "done"]_vars
  /\ [][(Over(world) /\ pc = "turn" /\ ~LivingUnitToCome) =>
          /\ pc' # "done"
          /\ slot > Len(unit_indexes) =>
               /\ pc' = "round"
               /\ world'.rounds_completed = world.rounds_completed + 1]_vars
  /\ [][(Over(world) /\ pc = "round") =>
          /\ pc' = "turn"
          /\ world' = world
          /\ LivingUnitToCome']_vars
  /\ []((pc = "done" /\ last.unit # 0) =>
          world.rounds_completed =
            last.before.rounds_completed
              + (IF \E j \in 1..(slot - 1) : unit_indexes[j] = last.unit THEN 0 ELSE 1))

\* C29 witness: combat has returned at the first turn of a round, the round
\* before having been counted although its last turn killed the last enemy.
C29_Witness ==
  /\ pc = "done"
  /\ last.unit # 0
  /\ BothFactionsAlive(last.before)
  /\ Over(world)
  /\ world.rounds_completed = last.before.rounds_completed + 1
  /\ \A j \in 1..(slot - 1) : world.units[unit_indexes[j]].health <= 0

(***************************************************************************)
(* The assertions of turn, move_step and attack_step                       *)
(***************************************************************************)
\* combat() on the World of any text from_str accepts: the well-formed maps
\* of Spec and the malformed ones of SpecRagged.
InitAny == Init \/ InitRagged

NextAny == CombatNext

SpecAny == InitAny /\ [][NextAny]_vars

\* C30: nothing panics in combat; a unit that is dead when its slot comes
\* takes no turn, so turn() is called for living units only; the unit is
\* alive when move_step is called in its turn and still alive, after
\* move_step, when attack_step is called: neither returns by a failed
\* assertion, under any iteration order of the hash containers.
C30_AssertionsNeverFail ==
  /\ [](pc # "panic")
  /\ [](TurnReady =>
          \A k \in {unit_indexes[slot]} :
            \A ord \in HashOrders :
              \A m \in {move_step(world, k, ord)} :
                /\ turn(world, k, ord).ret # "Panic"
                /\ any_enemies_alive(world, k) =>
                     /\ m.ret # "Panic"
                     /\ is_alive(m.world.units[k])
                     /\ attack_step(m.world, k).ret # "Panic")
  /\ [][(/\ pc = "turn"
         /\ slot <= Len(unit_indexes)
         /\ ~is_alive(world.units[unit_indexes[slot]])) =>
          /\ world' = world
          /\ last' = last
          /\ pc' = "turn"
          /\ slot' = slot + 1]_vars

\* C30 witness: the slot that comes next is that of a unit the last turn
\* killed, in the round under way; units that moved and attacked took their
\* turns before.
C30_Witness ==
  /\ pc = "turn"
  /\ slot <= Len(unit_indexes)
  /\ last.unit # 0
  /\ world.units[unit_indexes[slot]].health <= 0
  /\ last.before.units[unit_indexes[slot]].health > 0
  /\ world.rounds_completed > 0

====
